---- MODULE Spec2Model ----
(***************************************************************************)
(* Model of the SQL Server (TDS) protocol helpers of lib/srv/db/sqlserver: *)
(* the packet framer (ReadPacket), the login step (ReadLogin7Packet,       *)
(* WriteLogin7Response) and the token codec (LoginAckToken, DoneToken).    *)
(*                                                                         *)
(* A connection is modelled by the bytes the client has sent so far        *)
(* (wire), whether the client has closed its side (closed) and how many    *)
(* bytes the server has consumed (rpos).  Bytes are integers 0..255.       *)
(* sent lists what the client wrote, chunk by chunk, and calls lists the   *)
(* calls the server made on the connection with what they returned.        *)
(***************************************************************************)
EXTENDS Integers, Sequences, FiniteSets, TLC

VARIABLES wire, closed, rpos, sent, calls, tok, mret, wlog, wret,
          toks, tsret, dtok, dret,
          uri, authz, epc, eret, target, connects, backend, backendCloses,
          clientOps,
          gh, refs, picks, bpc, bi, headCommit, loc, bret, remote, steps,
          branchCommits, opts, repoCommits, lpc, lret, listed

vars == <<wire, closed, rpos, sent, calls, tok, mret, wlog, wret,
          toks, tsret, dtok, dret,
          uri, authz, epc, eret, target, connects, backend, backendCloses,
          clientOps,
          gh, refs, picks, bpc, bi, headCommit, loc, bret, remote, steps,
          branchCommits, opts, repoCommits, lpc, lret, listed>>

connVars == <<wire, closed, rpos, sent, calls>>
codecVars == <<tok, mret, wlog, wret>>
tokensVars == <<toks, tsret, dtok, dret>>
engineVars == <<uri, authz, epc, eret, target, connects, backend,
                backendCloses, clientOps>>
backportVars == <<gh, refs, picks, bpc, bi, headCommit, loc, bret, remote, steps>>
commitsVars == <<branchCommits, opts, repoCommits, lpc, lret, listed>>

(***************************************************************************)
(* Bounds of the model.                                                    *)
(***************************************************************************)
MaxFrames == 2
MaxPayload == 1
MaxRaw == 1
MaxCalls == 2
MaxNameLen == 2
MaxWrites == 2
MaxTokens == 3
MaxCommits == 2
MaxListPages == 3

(***************************************************************************)
(* Program constants.                                                      *)
(***************************************************************************)
PacketTypeLogin7 == 16
PacketTypePreLogin == 18
packetHeaderSize == 8
PacketTypeResponse == 4
loginAckTokenType == 173
doneTokenType == 253
verTDS74 == 1946157060

(***************************************************************************)
(* Fixed-width integer helpers (encoding/binary).                          *)
(***************************************************************************)
Uint8(x) == x % 256
Uint16(x) == x % 65536

BigEndianUint16(b) == b[1] * 256 + b[2]
BigEndianPutUint16(x) == <<(x \div 256) % 256, x % 256>>
LittleEndianPutUint16(x) == <<x % 256, (x \div 256) % 256>>
BigEndianPutUint32(x) ==
    <<(x \div 16777216) % 256, (x \div 65536) % 256, (x \div 256) % 256, x % 256>>
LittleEndianPutUint32(x) ==
    <<x % 256, (x \div 256) % 256, (x \div 65536) % 256, (x \div 16777216) % 256>>

(***************************************************************************)
(* io.ReadFull(conn, buf) with len(buf) = n on a stream w of which p bytes *)
(* have been consumed and which ends after Len(w) bytes: n bytes when they *)
(* are there, otherwise io.EOF when nothing could be read and              *)
(* io.ErrUnexpectedEOF when only a part could.  A zero-length buffer is    *)
(* filled without touching the stream.                                     *)
(***************************************************************************)
ReadFull(w, p, n) ==
    LET avail == Len(w) - p
    IN  IF avail >= n
        THEN [n |-> n, err |-> "nil", data |-> SubSeq(w, p + 1, p + n)]
        ELSE [n |-> avail,
              err |-> IF avail = 0 THEN "EOF" ELSE "ErrUnexpectedEOF",
              data |-> SubSeq(w, p + 1, p + avail)]

\* trace.ConvertSystemError leaves io.EOF and io.ErrUnexpectedEOF as they
\* are: it converts only os and net errors.
ConvertSystemError(err) == err

(***************************************************************************)
(* ReadPacket(conn): the value returned (pkt is <<>> for nil, <<p>> for a  *)
(* packet), the stream position afterwards (pos) and the size of the       *)
(* payload buffer it asked ReadFull to fill (want, -1 when the header read *)
(* failed).                                                                *)
(***************************************************************************)
ParseHeaderSwapped(header) ==
    [Type |-> header[1],
     Status |-> header[2],
     Length |-> BigEndianUint16(SubSeq(header, 3, 4)),
     SPID |-> BigEndianUint16(SubSeq(header, 5, 6)),
     PacketID |-> header[8],
     Window |-> header[7]]

\* "Build out packet header": the Packet literal of ReadPacket.
ParseHeader(header) ==
    [Type |-> header[1],
     Status |-> header[2],
     Length |-> BigEndianUint16(SubSeq(header, 3, 4)),
     SPID |-> BigEndianUint16(SubSeq(header, 5, 6)),
     PacketID |-> header[7],
     Window |-> header[8]]

PayloadSizeWithHeader(length) == Uint16(length)

\* len(pkt.Data): pkt.Length-packetHeaderSize, computed in uint16.
PayloadSize(length) == Uint16(length - packetHeaderSize)

ReadPacket(w, p) ==
    LET h == ReadFull(w, p, packetHeaderSize)
    IN  IF h.err # "nil"
        THEN [pkt |-> <<>>, err |-> ConvertSystemError(h.err),
              pos |-> p + h.n, want |-> -1]
        ELSE LET pkt == ParseHeader(h.data)
                 size == PayloadSize(pkt.Length)
                 d == ReadFull(w, p + packetHeaderSize, size)
             IN  IF d.err # "nil"
                 THEN [pkt |-> <<>>, err |-> ConvertSystemError(d.err),
                       pos |-> p + packetHeaderSize + d.n, want |-> size]
                 ELSE [pkt |-> <<pkt @@ [Data |-> d.data]>>,
                       err |-> "nil",
                       pos |-> p + packetHeaderSize + size, want |-> size]

\* The reads of ReadPacket block until the bytes are there or the stream
\* has ended: the call returns once its outcome is decided.
ReadPacketReturns(w, p, c) ==
    \/ c
    \/ /\ Len(w) - p >= packetHeaderSize
       /\ Len(w) - p - packetHeaderSize >=
             PayloadSize(BigEndianUint16(SubSeq(w, p + 3, p + 4)))

(***************************************************************************)
(* ReadLogin7Packet(conn): val is <<>> for nil, <<l>> for a Login7Packet;  *)
(* rp is the result of its ReadPacket call.  The fields of Login7Packet    *)
(* other than Packet are left at their zero value.                         *)
(***************************************************************************)
ReadLogin7PacketAnyType(w, p) ==
    LET rp == ReadPacket(w, p)
    IN  IF rp.err # "nil"
        THEN [val |-> <<>>, err |-> rp.err, rp |-> rp]
        ELSE [val |-> <<[Packet |-> rp.pkt[1], Length |-> 0, TDSVersion |-> 0,
                         PacketSize |-> 0, ClientProgVer |-> 0,
                         ClientPID |-> 0, ConnectionID |-> 0]>>,
              err |-> "nil", rp |-> rp]

ReadLogin7Packet(w, p) ==
    LET rp == ReadPacket(w, p)
    IN  IF rp.err # "nil"
        THEN [val |-> <<>>, err |-> rp.err, rp |-> rp]
        ELSE IF rp.pkt[1].Type # PacketTypeLogin7
        THEN [val |-> <<>>, err |-> "BadParameter", rp |-> rp]
        ELSE [val |-> <<[Packet |-> rp.pkt[1], Length |-> 0, TDSVersion |-> 0,
                         PacketSize |-> 0, ClientProgVer |-> 0,
                         ClientPID |-> 0, ConnectionID |-> 0]>>,
              err |-> "nil", rp |-> rp]

(***************************************************************************)
(* The frame WriteLogin7Response builds: an 8-byte header (type, status,   *)
(* big-endian length, two zero bytes, packet ID, zero) followed by the     *)
(* data.  The length is uint16(len(data)+8).                               *)
(***************************************************************************)
FrameBytes(type, status, packetId, data) ==
    <<type, status>> \o BigEndianPutUint16(Uint16(Len(data) + 8))
        \o <<0, 0, packetId, 0>> \o data

(***************************************************************************)
(* Token codec.  A Go string is modelled by the sequence of its code       *)
(* points; len(s) is the length of its UTF-8 encoding.                     *)
(***************************************************************************)
Utf8Len(r) ==
    IF r < 128 THEN 1 ELSE IF r < 2048 THEN 2 ELSE IF r < 65536 THEN 3 ELSE 4

\* Sequences are split in halves so that a name of some hundred characters
\* is handled at a small recursion depth.
RECURSIVE StringLen(_)
StringLen(s) ==
    IF s = <<>> THEN 0
    ELSE IF Len(s) = 1 THEN Utf8Len(s[1])
    ELSE StringLen(SubSeq(s, 1, Len(s) \div 2))
            + StringLen(SubSeq(s, Len(s) \div 2 + 1, Len(s)))

\* utf16.Encode: one code unit for a code point of the basic plane, a
\* surrogate pair for a code point above U+FFFF, U+FFFD for a surrogate.
RECURSIVE Utf16Encode(_)
Utf16Encode(s) ==
    IF s = <<>> THEN <<>>
    ELSE IF Len(s) = 1
    THEN LET r == s[1]
         IN  IF r >= 55296 /\ r < 57344 THEN <<65533>>
             ELSE IF r < 65536 THEN <<r>>
             ELSE <<55296 + (((r - 65536) \div 1024) % 1024),
                    56320 + ((r - 65536) % 1024)>>
    ELSE Utf16Encode(SubSeq(s, 1, Len(s) \div 2))
            \o Utf16Encode(SubSeq(s, Len(s) \div 2 + 1, Len(s)))

\* The loop of str2ucs2: code unit i goes to bytes 2i (low) and 2i+1 (high).
Ucs2BytesBigEndian(res) ==
    [k \in 1..(2 * Len(res)) |->
        IF k % 2 = 1 THEN Uint8(res[(k + 1) \div 2] \div 256)
        ELSE Uint8(res[k \div 2])]

Ucs2Bytes(res) ==
    [k \in 1..(2 * Len(res)) |->
        IF k % 2 = 1 THEN Uint8(res[(k + 1) \div 2])
        ELSE Uint8(res[k \div 2] \div 256)]

str2ucs2BigEndian(s) == Ucs2BytesBigEndian(Utf16Encode(s))

str2ucs2(s) == Ucs2Bytes(Utf16Encode(s))

\* A uint64 is kept as its four 16-bit limbs, least significant first.
LittleEndianPutUint64(x) ==
    LittleEndianPutUint16(x[1]) \o LittleEndianPutUint16(x[2])
        \o LittleEndianPutUint16(x[3]) \o LittleEndianPutUint16(x[4])

\* (*LoginAckToken).Marshal: it has no failing path.
LoginAckTokenMarshal(t) ==
    LET length == 1 + 4 + StringLen(t.ProgName) * 2 + 4
        progName == str2ucs2(t.ProgName)
    IN  [bytes |-> <<loginAckTokenType>>
                     \o LittleEndianPutUint16(Uint16(length))
                     \o <<t.Interface>>
                     \o BigEndianPutUint32(t.TDSVersion)
                     \o <<Uint8(Len(progName) \div 2)>>
                     \o progName
                     \o LittleEndianPutUint32(t.ProgVer),
         err |-> "nil"]

DoneTokenMarshalBigEndian(t) ==
    [bytes |-> <<doneTokenType>>
                 \o BigEndianPutUint16(t.Status)
                 \o BigEndianPutUint16(t.CurCmd)
                 \o LittleEndianPutUint64(t.RowCount),
     err |-> "nil"]

\* (*DoneToken).Marshal: it has no failing path.
DoneTokenMarshal(t) ==
    [bytes |-> <<doneTokenType>>
                 \o LittleEndianPutUint16(t.Status)
                 \o LittleEndianPutUint16(t.CurCmd)
                 \o LittleEndianPutUint64(t.RowCount),
     err |-> "nil"]

\* Token.Marshal, dispatched on the dynamic type of the token.  Token is an
\* interface: an implementation other than the two of this package is given
\* by what its Marshal returns.
TokenMarshal(t) ==
    IF t.kind = "LoginAck" THEN LoginAckTokenMarshal(t)
    ELSE IF t.kind = "Done" THEN DoneTokenMarshal(t)
    ELSE [bytes |-> t.bytes, err |-> t.err]

RECURSIVE TokensMarshalFromPartial(_, _)
TokensMarshalFromPartial(ts, b) ==
    IF ts = <<>> THEN [bytes |-> b, err |-> "nil"]
    ELSE LET r == TokenMarshal(ts[1])
         IN  IF r.err # "nil" THEN [bytes |-> b, err |-> r.err]
             ELSE TokensMarshalFromPartial(Tail(ts), b \o r.bytes)

\* Tokens.Marshal: b is what has been appended so far.
RECURSIVE TokensMarshalFrom(_, _)
TokensMarshalFrom(ts, b) ==
    IF ts = <<>> THEN [bytes |-> b, err |-> "nil"]
    ELSE LET r == TokenMarshal(ts[1])
         IN  IF r.err # "nil" THEN [bytes |-> <<>>, err |-> r.err]
             ELSE TokensMarshalFrom(Tail(ts), b \o r.bytes)

TokensMarshal(ts) == TokensMarshalFrom(ts, <<>>)

\* "Microsoft SQL Server.."
Login7ProgName ==
    <<77, 105, 99, 114, 111, 115, 111, 102, 116, 32, 83, 81, 76, 32,
      83, 101, 114, 118, 101, 114, 46, 46>>

\* The tokens of the Login7Response that WriteLogin7Response builds.
Login7ResponseTokens ==
    <<[kind |-> "LoginAck", Interface |-> 1, TDSVersion |-> verTDS74,
       ProgName |-> Login7ProgName, ProgVer |-> 0],
      [kind |-> "Done", Status |-> 0, CurCmd |-> 0, RowCount |-> <<0, 0, 0, 0>>]>>

Login7ResponsePacketNotLast(data) == FrameBytes(PacketTypeResponse, 0, 1, data)

\* The packet WriteLogin7Response passes to conn.Write.
Login7ResponsePacket(data) == FrameBytes(PacketTypeResponse, 1, 1, data)

(***************************************************************************)
(* Session engine.  A string is the sequence of its characters.            *)
(***************************************************************************)
Digits == {"0", "1", "2", "3", "4", "5", "6", "7", "8", "9"}

DigitValue(c) ==
    CASE c = "0" -> 0 [] c = "1" -> 1 [] c = "2" -> 2 [] c = "3" -> 3
      [] c = "4" -> 4 [] c = "5" -> 5 [] c = "6" -> 6 [] c = "7" -> 7
      [] c = "8" -> 8 [] c = "9" -> 9

\* strings.IndexByte and strings.LastIndexByte, counted from 1; 0 when the
\* character is not there.
IndexByte(s, c) ==
    IF \E i \in 1..Len(s) : s[i] = c
    THEN CHOOSE i \in 1..Len(s) : s[i] = c /\ \A k \in 1..(i - 1) : s[k] # c
    ELSE 0

LastIndexByte(s, c) ==
    IF \E i \in 1..Len(s) : s[i] = c
    THEN CHOOSE i \in 1..Len(s) : s[i] = c /\ \A k \in (i + 1)..Len(s) : s[k] # c
    ELSE 0

AddrError == [host |-> <<>>, port |-> <<>>, err |-> "AddrError"]

\* net.SplitHostPort(hostport).
SplitHostPort(hostport) ==
    LET i == LastIndexByte(hostport, ":")
        end == IndexByte(hostport, "]")
        bracketed == hostport[1] = "["
        host == IF bracketed THEN SubSeq(hostport, 2, end - 1)
                ELSE SubSeq(hostport, 1, i - 1)
        j == IF bracketed THEN 1 ELSE 0
        k == IF bracketed THEN end ELSE 0
    IN  IF i = 0 THEN AddrError
        ELSE IF bracketed /\ end = 0 THEN AddrError
        ELSE IF bracketed /\ end + 1 # i THEN AddrError
        ELSE IF ~bracketed /\ IndexByte(host, ":") # 0 THEN AddrError
        ELSE IF IndexByte(SubSeq(hostport, j + 1, Len(hostport)), "[") # 0
        THEN AddrError
        ELSE IF IndexByte(SubSeq(hostport, k + 1, Len(hostport)), "]") # 0
        THEN AddrError
        ELSE [host |-> host, port |-> SubSeq(hostport, i + 1, Len(hostport)),
              err |-> "nil"]

RECURSIVE DecimalValue(_)
DecimalValue(s) ==
    IF s = <<>> THEN 0
    ELSE DecimalValue(SubSeq(s, 1, Len(s) - 1)) * 10 + DigitValue(s[Len(s)])

ParseIntSigned(s) ==
    LET digits == IF s # <<>> /\ s[1] \in {"+", "-"} THEN Tail(s) ELSE s
    IN  IF digits = <<>> \/ \E i \in 1..Len(digits) : digits[i] \notin Digits
        THEN [val |-> 0, err |-> "NumError"]
        ELSE [val |-> DecimalValue(digits), err |-> "nil"]

\* strconv.ParseUint(s, 10, 64): a sign, an empty string and anything that
\* is not a digit are syntax errors.  The strings of the model are too
\* short for a range error.
ParseUint(s) ==
    IF s = <<>> \/ \E i \in 1..Len(s) : s[i] \notin Digits
    THEN [val |-> 0, err |-> "NumError"]
    ELSE [val |-> DecimalValue(s), err |-> "nil"]

(***************************************************************************)
(* The inputs of the model: what the client may put on the wire.           *)
(***************************************************************************)
PayloadBytes == {1, 2}
FrameTypes == {PacketTypeLogin7, PacketTypePreLogin}
FrameStatuses == {0, 1}
FramePacketIds == {1, 255}
ShortLengths == {0, 7}

Payloads == UNION {[1..n -> PayloadBytes] : n \in 0..MaxPayload}

Frames == [raw : {FALSE}, type : FrameTypes, status : FrameStatuses,
           packetId : FramePacketIds, payload : Payloads]

\* Bytes that are not a whole frame: a header whose length field is below
\* the header size, a header that announces one payload byte, the first
\* three bytes of a header, and one stray byte.
RawChunks ==
    {<<PacketTypeLogin7, 1>> \o BigEndianPutUint16(l) \o <<0, 0, 1, 0>> :
        l \in ShortLengths \cup {9}}
    \cup {<<PacketTypeLogin7, 1, 0>>, <<5>>}

NoToken == [kind |-> "LoginAck", Interface |-> 0, TDSVersion |-> 0,
            ProgName |-> <<>>, ProgVer |-> 0]
NoReturn == [bytes |-> <<>>, err |-> "none"]
NoDoneToken == [kind |-> "Done", Status |-> 0, CurCmd |-> 0,
                RowCount |-> <<0, 0, 0, 0>>]

NoTarget == [host |-> <<>>, port |-> <<>>, portI |-> 0]

\* The names of the branch to backport onto and of the branch Backport
\* creates, fmt.Sprintf("auto-backport/%s/%s", base, backport).
BaseBranchName == "branch/v8"
NewBranchName == "auto-backport/branch/v8/fix"

NoCommit == [SHA |-> 0, Tree |-> {}]
NoLocals == [baseSHA |-> 0, branchSHA |-> 0, temp |-> 0, mergeSHA |-> 0,
             mergeTree |-> {}, updated |-> 0, sha |-> 0, err |-> "nil"]
NoBackportReturn == [name |-> "", err |-> "none"]

\* No Backport is running.
BackportIdle ==
    /\ gh = <<>>
    /\ refs = [b \in {BaseBranchName, NewBranchName} |-> 0]
    /\ picks = <<>>
    /\ bpc = "idle"
    /\ bi = 0
    /\ headCommit = NoCommit
    /\ loc = NoLocals
    /\ bret = NoBackportReturn
    /\ remote = <<>>
    /\ steps = <<>>

\* perPage is the number of items per page to request.
perPage == 100

NoListOptions == [Page |-> 0, PerPage |-> 0]
NoCommitsReturn == [commits |-> <<>>, err |-> "none"]
CommitsIdle ==
    /\ branchCommits = <<>>
    /\ opts = NoListOptions
    /\ repoCommits = <<>>
    /\ lpc = "idle"
    /\ lret = NoCommitsReturn
    /\ listed = <<>>

\* No HandleConnection is running.
EngineIdle ==
    /\ uri = <<>>
    /\ authz = TRUE
    /\ epc = "idle"
    /\ eret = "none"
    /\ target = NoTarget
    /\ connects = <<>>
    /\ backend = "none"
    /\ backendCloses = 0
    /\ clientOps = <<>>

\* The token side is not in use.
TokensIdle ==
    /\ toks = <<>>
    /\ tsret = NoReturn
    /\ dtok = NoDoneToken
    /\ dret = NoReturn

Init ==
    /\ wire = <<>>
    /\ closed = FALSE
    /\ rpos = 0
    /\ sent = <<>>
    /\ calls = <<>>
    /\ tok = NoToken
    /\ mret = NoReturn
    /\ wlog = <<>>
    /\ wret = <<>>
    /\ TokensIdle
    /\ EngineIdle
    /\ BackportIdle
    /\ CommitsIdle

\* The client writes one whole frame.
ClientSendFrame ==
    /\ ~closed
    /\ Len(sent) < MaxFrames
    /\ \E f \in Frames :
          /\ wire' = wire \o FrameBytes(f.type, f.status, f.packetId, f.payload)
          /\ sent' = Append(sent, f)
    /\ UNCHANGED <<closed, rpos, calls>>
    /\ UNCHANGED codecVars
    /\ UNCHANGED tokensVars
    /\ UNCHANGED engineVars
    /\ UNCHANGED backportVars
    /\ UNCHANGED commitsVars

\* The client writes bytes that are not a whole frame.
ClientSendRaw ==
    /\ ~closed
    /\ Len(sent) < MaxFrames
    /\ Cardinality({i \in 1..Len(sent) : sent[i].raw}) < MaxRaw
    /\ \E c \in RawChunks :
          /\ wire' = wire \o c
          /\ sent' = Append(sent, [raw |-> TRUE, type |-> 0, status |-> 0,
                                   packetId |-> 0, payload |-> c])
    /\ UNCHANGED <<closed, rpos, calls>>
    /\ UNCHANGED codecVars
    /\ UNCHANGED tokensVars
    /\ UNCHANGED engineVars
    /\ UNCHANGED backportVars
    /\ UNCHANGED commitsVars

\* The client closes its side: the stream ends after the bytes sent so far.
ClientClose ==
    /\ ~closed
    /\ closed' = TRUE
    /\ UNCHANGED <<wire, rpos, sent, calls>>
    /\ UNCHANGED codecVars
    /\ UNCHANGED tokensVars
    /\ UNCHANGED engineVars
    /\ UNCHANGED backportVars
    /\ UNCHANGED commitsVars

\* One call of ReadPacket(conn).
DoReadPacket ==
    /\ Len(calls) < MaxCalls
    /\ ReadPacketReturns(wire, rpos, closed)
    /\ LET rp == ReadPacket(wire, rpos)
       IN  /\ rpos' = rp.pos
           /\ calls' = Append(calls, [fn |-> "ReadPacket", start |-> rpos,
                                      rp |-> rp, val |-> rp.pkt, err |-> rp.err])
    /\ UNCHANGED <<wire, closed, sent>>
    /\ UNCHANGED codecVars
    /\ UNCHANGED tokensVars
    /\ UNCHANGED engineVars
    /\ UNCHANGED backportVars
    /\ UNCHANGED commitsVars

\* One call of ReadLogin7Packet(conn).
DoReadLogin7Packet ==
    /\ Len(calls) < MaxCalls
    /\ ReadPacketReturns(wire, rpos, closed)
    /\ LET r == ReadLogin7Packet(wire, rpos)
       IN  /\ rpos' = r.rp.pos
           /\ calls' = Append(calls, [fn |-> "ReadLogin7Packet", start |-> rpos,
                                      rp |-> r.rp, val |-> r.val, err |-> r.err])
    /\ UNCHANGED <<wire, closed, sent>>
    /\ UNCHANGED codecVars
    /\ UNCHANGED tokensVars
    /\ UNCHANGED engineVars
    /\ UNCHANGED backportVars
    /\ UNCHANGED commitsVars

Next ==
    \/ ClientSendFrame
    \/ ClientSendRaw
    \/ ClientClose
    \/ DoReadPacket
    \/ DoReadLogin7Packet

Spec == Init /\ [][Next]_vars

(***************************************************************************)
(* The response side: a LoginAckToken drawn from the inputs below is       *)
(* marshalled, and WriteLogin7Response writes to the connection.  wlog     *)
(* lists the calls of conn.Write (the packet passed, the number of bytes   *)
(* the connection took, the error returned) and wret what each call of     *)
(* WriteLogin7Response returned.                                           *)
(***************************************************************************)
NameChars == {65, 83, 233, 8364, 128512}
LongNameLengths == {255, 256}
Interfaces == {0, 1}
PartialWrites == {0, packetHeaderSize}

ProgNames ==
    UNION {[1..n -> NameChars] : n \in 0..MaxNameLen}
    \cup {[i \in 1..n |-> 65] : n \in LongNameLengths}
    \cup {[i \in 1..n |-> 8364] : n \in LongNameLengths}

LoginAckTokens ==
    [kind : {"LoginAck"}, Interface : Interfaces, TDSVersion : {16909060, verTDS74},
     ProgName : ProgNames, ProgVer : {0, 16909060}]

InitResponse ==
    /\ wire = <<>>
    /\ closed = FALSE
    /\ rpos = 0
    /\ sent = <<>>
    /\ calls = <<>>
    /\ tok \in LoginAckTokens
    /\ mret = NoReturn
    /\ wlog = <<>>
    /\ wret = <<>>
    /\ TokensIdle
    /\ EngineIdle
    /\ BackportIdle
    /\ CommitsIdle

\* One call of tok.Marshal().
DoLoginAckMarshal ==
    /\ mret = NoReturn
    /\ mret' = LoginAckTokenMarshal(tok)
    /\ UNCHANGED <<tok, wlog, wret>>
    /\ UNCHANGED connVars
    /\ UNCHANGED tokensVars
    /\ UNCHANGED engineVars
    /\ UNCHANGED backportVars
    /\ UNCHANGED commitsVars

\* One call of WriteLogin7Response(conn).  conn.Write either takes the
\* whole packet or fails after taking a part of it.
DoWriteLogin7Response ==
    /\ Len(wret) < MaxWrites
    /\ LET m == TokensMarshal(Login7ResponseTokens)
       IN  IF m.err # "nil"
           THEN /\ wret' = Append(wret, m.err)
                /\ wlog' = wlog
           ELSE LET pkt == Login7ResponsePacket(m.bytes)
                IN  \/ /\ wlog' = Append(wlog, [data |-> pkt, n |-> Len(pkt),
                                                err |-> "nil"])
                       /\ wret' = Append(wret, "nil")
                    \/ \E n \in PartialWrites :
                          /\ wlog' = Append(wlog, [data |-> pkt, n |-> n,
                                                   err |-> "WriteError"])
                          /\ wret' = Append(wret, "WriteError")
    /\ UNCHANGED <<tok, mret>>
    /\ UNCHANGED connVars
    /\ UNCHANGED tokensVars
    /\ UNCHANGED engineVars
    /\ UNCHANGED backportVars
    /\ UNCHANGED commitsVars

NextResponse ==
    \/ DoLoginAckMarshal
    \/ DoWriteLogin7Response

SpecResponse == InitResponse /\ [][NextResponse]_vars

(***************************************************************************)
(* The token side: a sequence of tokens and a DoneToken drawn from the     *)
(* inputs below are marshalled.                                            *)
(***************************************************************************)
DoneTokens ==
    [kind : {"Done"}, Status : {0, 258, 65535}, CurCmd : {0, 513},
     RowCount : {<<0, 0, 0, 0>>, <<1027, 1541, 2055, 2569>>,
                 <<65535, 65535, 65535, 65535>>}]

\* The tokens a Tokens value may hold: the two of this package and other
\* implementations of Token, one that marshals to a byte and two that fail.
TokenChoices ==
    {[kind |-> "LoginAck", Interface |-> 1, TDSVersion |-> verTDS74,
      ProgName |-> <<83>>, ProgVer |-> 0],
     NoDoneToken,
     [kind |-> "Done", Status |-> 258, CurCmd |-> 513,
      RowCount |-> <<1027, 1541, 2055, 2569>>],
     [kind |-> "Other", bytes |-> <<9>>, err |-> "nil"],
     [kind |-> "Other", bytes |-> <<7, 7>>, err |-> "MarshalError"],
     [kind |-> "Other", bytes |-> <<>>, err |-> "OtherError"]}

TokenSequences == UNION {[1..n -> TokenChoices] : n \in 0..MaxTokens}

InitTokens ==
    /\ wire = <<>>
    /\ closed = FALSE
    /\ rpos = 0
    /\ sent = <<>>
    /\ calls = <<>>
    /\ tok = NoToken
    /\ mret = NoReturn
    /\ wlog = <<>>
    /\ wret = <<>>
    /\ toks \in TokenSequences
    /\ tsret = NoReturn
    /\ dtok \in DoneTokens
    /\ dret = NoReturn
    /\ EngineIdle
    /\ BackportIdle
    /\ CommitsIdle

\* One call of toks.Marshal().
DoTokensMarshal ==
    /\ tsret = NoReturn
    /\ tsret' = TokensMarshal(toks)
    /\ UNCHANGED <<toks, dtok, dret>>
    /\ UNCHANGED <<connVars, codecVars>>
    /\ UNCHANGED engineVars
    /\ UNCHANGED backportVars
    /\ UNCHANGED commitsVars

\* One call of dtok.Marshal().
DoDoneMarshal ==
    /\ dret = NoReturn
    /\ dret' = DoneTokenMarshal(dtok)
    /\ UNCHANGED <<toks, tsret, dtok>>
    /\ UNCHANGED <<connVars, codecVars>>
    /\ UNCHANGED engineVars
    /\ UNCHANGED backportVars
    /\ UNCHANGED commitsVars

NextTokens ==
    \/ DoTokensMarshal
    \/ DoDoneMarshal

SpecTokens == InitTokens /\ [][NextTokens]_vars

(***************************************************************************)
(* The session engine: one run of Engine.HandleConnection for a session    *)
(* whose database URI is uri, on a client connection on which the client   *)
(* sends its pre-login and login messages.  authz is what the authorizer   *)
(* of the session would answer, connects lists the calls of                *)
(* connector.Connect, backend is the state of the connection it returned   *)
(* and clientOps lists what HandleConnection did on clientConn.            *)
(***************************************************************************)
UriHosts ==
    {<<>>, <<"h">>, <<"[", "h", "]">>, <<"[", "h">>, <<"h", "]">>,
     <<"h", ":", "h">>, <<"[", "h", ":", "h", "]">>}
UriSeparators == {<<>>, <<":">>}
UriPorts == {<<>>, <<"1">>, <<"1", "0">>, <<"-", "1">>, <<"1", "h">>}

Uris == {h \o c \o p : h \in UriHosts, c \in UriSeparators, p \in UriPorts}

\* A pre-login message: the ENCRYPTION option (offset 6, length 1), the
\* terminator and the value encryptOff.
PreLoginPayload == <<1, 0, 6, 0, 1, 255, 0>>
PreLoginFrame ==
    [raw |-> FALSE, type |-> PacketTypePreLogin, status |-> 1, packetId |-> 1,
     payload |-> PreLoginPayload]
Login7Frame ==
    [raw |-> FALSE, type |-> PacketTypeLogin7, status |-> 1, packetId |-> 1,
     payload |-> <<1, 2>>]

InitEngine ==
    /\ wire = <<>>
    /\ closed = FALSE
    /\ rpos = 0
    /\ sent = <<>>
    /\ calls = <<>>
    /\ tok = NoToken
    /\ mret = NoReturn
    /\ wlog = <<>>
    /\ wret = <<>>
    /\ TokensIdle
    /\ uri \in Uris
    /\ authz \in BOOLEAN
    /\ epc = "SplitHostPort"
    /\ eret = "none"
    /\ target = NoTarget
    /\ connects = <<>>
    /\ backend = "none"
    /\ backendCloses = 0
    /\ clientOps = <<>>
    /\ BackportIdle
    /\ CommitsIdle

\* The client writes its pre-login message, then its login message.
ClientSendHandshake ==
    /\ ~closed
    /\ Len(sent) < 2
    /\ LET f == IF sent = <<>> THEN PreLoginFrame ELSE Login7Frame
       IN  /\ wire' = wire \o FrameBytes(f.type, f.status, f.packetId, f.payload)
           /\ sent' = Append(sent, f)
    /\ UNCHANGED <<closed, rpos, calls>>
    /\ UNCHANGED <<codecVars, tokensVars, engineVars>>
    /\ UNCHANGED backportVars
    /\ UNCHANGED commitsVars

\* host, port, err := net.SplitHostPort(sessionCtx.Database.GetURI())
EngineSplitHostPort ==
    /\ epc = "SplitHostPort"
    /\ LET r == SplitHostPort(uri)
       IN  IF r.err # "nil"
           THEN /\ eret' = r.err
                /\ epc' = "returned"
                /\ UNCHANGED target
           ELSE /\ target' = [target EXCEPT !.host = r.host, !.port = r.port]
                /\ epc' = "ParseUint"
                /\ UNCHANGED eret
    /\ UNCHANGED <<uri, authz, connects, backend, backendCloses, clientOps>>
    /\ UNCHANGED <<connVars, codecVars, tokensVars>>
    /\ UNCHANGED backportVars
    /\ UNCHANGED commitsVars

\* portI, err := strconv.ParseUint(port, 10, 64)
EngineParseUint ==
    /\ epc = "ParseUint"
    /\ LET r == ParseUint(target.port)
       IN  IF r.err # "nil"
           THEN /\ eret' = r.err
                /\ epc' = "returned"
                /\ UNCHANGED target
           ELSE /\ target' = [target EXCEPT !.portI = r.val]
                /\ epc' = "Connect"
                /\ UNCHANGED eret
    /\ UNCHANGED <<uri, authz, connects, backend, backendCloses, clientOps>>
    /\ UNCHANGED <<connVars, codecVars, tokensVars>>
    /\ UNCHANGED backportVars
    /\ UNCHANGED commitsVars

\* conn, err := connector.Connect(ctx): the connector returns a connection
\* or an error.
EngineConnect ==
    /\ epc = "Connect"
    /\ connects' = Append(connects, [Host |-> target.host, Port |-> target.portI])
    /\ \/ /\ backend' = "open"
          /\ epc' = "Return"
          /\ UNCHANGED eret
       \/ /\ eret' = "ConnectError"
          /\ epc' = "returned"
          /\ UNCHANGED backend
    /\ UNCHANGED <<uri, authz, target, backendCloses, clientOps>>
    /\ UNCHANGED <<connVars, codecVars, tokensVars>>
    /\ UNCHANGED backportVars
    /\ UNCHANGED commitsVars

\* The rest of HandleConnection: the connection is a *mssql.Conn, its
\* underlying connection is taken and printed, nil is returned and the
\* deferred conn.Close() runs.
EngineReturn ==
    /\ epc = "Return"
    /\ eret' = "nil"
    /\ backend' = "closed"
    /\ backendCloses' = backendCloses + 1
    /\ epc' = "returned"
    /\ UNCHANGED <<uri, authz, target, connects, clientOps>>
    /\ UNCHANGED <<connVars, codecVars, tokensVars>>
    /\ UNCHANGED backportVars
    /\ UNCHANGED commitsVars

NextEngine ==
    \/ ClientSendHandshake
    \/ ClientClose
    \/ EngineSplitHostPort
    \/ EngineParseUint
    \/ EngineConnect
    \/ EngineReturn

SpecEngine == InitEngine /\ [][NextEngine]_vars

(***************************************************************************)
(* Backport.  The repository on GitHub is the list gh of its commits (the  *)
(* SHA of a commit is its index; a commit has a message, a tree and        *)
(* parents; a tree is the set of the changes it holds) and the commit refs *)
(* each branch points at (0: no such branch).  picks are the commits       *)
(* passed to Backport.  remote lists the calls made to GitHub (the         *)
(* function that made the call, the operation, the index of the commit     *)
(* being cherry-picked, whether the call succeeded), and steps the         *)
(* commits each completed cherry-pick created.                             *)
(***************************************************************************)
\* The commits of the repository before Backport: a root commit, the head
\* of the base branch, two commits in a row on master, a merge commit.
InitialCommits ==
    <<[message |-> "root", tree |-> {}, parents |-> <<>>],
      [message |-> "base", tree |-> {"b"}, parents |-> <<1>>],
      [message |-> "fix x", tree |-> {"x"}, parents |-> <<1>>],
      [message |-> "fix y", tree |-> {"x", "y"}, parents |-> <<3>>],
      [message |-> "merge", tree |-> {"b", "x"}, parents |-> <<3, 2>>]>>

PickSequences ==
    UNION {[1..n -> 1..Len(InitialCommits)] : n \in 0..MaxCommits}

\* The commit GitHub creates for a three-way merge of theirs into ours.
MergeTrees(ours, theirs, base) == (ours \cup (theirs \ base)) \ (base \ theirs)

\* The commit of a Git.CreateCommit request (createCommit).
CreateCommitRequest(message, tree, parent) ==
    [message |-> message, tree |-> tree, parents |-> <<parent>>]

NextHeadCommitSameSHA(head, tree, sha) == [SHA |-> head.SHA, Tree |-> tree]

\* headCommit.SHA = &sha; headCommit.Tree = tree
NextHeadCommit(head, tree, sha) == [SHA |-> sha, Tree |-> tree]

Log(fn, op, ok) == Append(remote, [fn |-> fn, op |-> op, i |-> bi, ok |-> ok])

InitBackport ==
    /\ wire = <<>>
    /\ closed = FALSE
    /\ rpos = 0
    /\ sent = <<>>
    /\ calls = <<>>
    /\ tok = NoToken
    /\ mret = NoReturn
    /\ wlog = <<>>
    /\ wret = <<>>
    /\ TokensIdle
    /\ EngineIdle
    /\ CommitsIdle
    /\ gh = InitialCommits
    /\ refs = [b \in {BaseBranchName, NewBranchName} |->
                  IF b = BaseBranchName THEN 2 ELSE 0]
    /\ picks \in PickSequences
    /\ bpc = "GetBaseBranch"
    /\ bi = 0
    /\ headCommit = NoCommit
    /\ loc = NoLocals
    /\ bret = NoBackportReturn
    /\ remote = <<>>
    /\ steps = <<>>

\* A call fails before the branch loop is entered: the error is returned.
ReturnError(fn, op) ==
    /\ remote' = Log(fn, op, FALSE)
    /\ bret' = [name |-> "", err |-> op]
    /\ bpc' = "returned"
    /\ UNCHANGED <<gh, refs, picks, bi, headCommit, loc, steps>>

CherryPickFailedNoDelete(fn, op) ==
    /\ remote' = Log(fn, op, FALSE)
    /\ bret' = [name |-> "", err |-> op]
    /\ bpc' = "returned"
    /\ UNCHANGED <<gh, refs, picks, bi, headCommit, loc, steps>>

\* cherryPickCommit returns an error: deleteBranch is deferred and the
\* error is returned.
CherryPickFailed(fn, op) ==
    /\ remote' = Log(fn, op, FALSE)
    /\ loc' = [loc EXCEPT !.err = op]
    /\ bpc' = "DeleteBranch"
    /\ UNCHANGED <<gh, refs, picks, bi, headCommit, bret, steps>>

\* createBranchFrom: baseBranch, err := c.getBranch(ctx, branchFromName)
BackportGetBaseBranch ==
    /\ bpc = "GetBaseBranch"
    /\ \/ /\ remote' = Log("createBranchFrom", "GetBranch", TRUE)
          /\ loc' = [loc EXCEPT !.baseSHA = refs[BaseBranchName]]
          /\ bpc' = "CreateRef"
          /\ UNCHANGED <<gh, refs, picks, bi, headCommit, bret, steps>>
       \/ ReturnError("createBranchFrom", "GetBranch")
    /\ UNCHANGED <<connVars, codecVars, tokensVars, engineVars, commitsVars>>

\* createBranchFrom: c.Client.Git.CreateRef(...)
BackportCreateRef ==
    /\ bpc = "CreateRef"
    /\ \/ /\ remote' = Log("createBranchFrom", "CreateRef", TRUE)
          /\ refs' = [refs EXCEPT ![NewBranchName] = loc.baseSHA]
          /\ bpc' = "GetNewBranch"
          /\ UNCHANGED <<gh, picks, bi, headCommit, loc, bret, steps>>
       \/ ReturnError("createBranchFrom", "CreateRef")
    /\ UNCHANGED <<connVars, codecVars, tokensVars, engineVars, commitsVars>>

\* cherryPickCommitsOnBranch: branch, err := c.getBranch(ctx, branchName)
CherryGetBranch ==
    /\ bpc = "GetNewBranch"
    /\ \/ /\ remote' = Log("cherryPickCommitsOnBranch", "GetBranch", TRUE)
          /\ loc' = [loc EXCEPT !.branchSHA = refs[NewBranchName]]
          /\ bpc' = "GetHeadCommit"
          /\ UNCHANGED <<gh, refs, picks, bi, headCommit, bret, steps>>
       \/ ReturnError("cherryPickCommitsOnBranch", "GetBranch")
    /\ UNCHANGED <<connVars, codecVars, tokensVars, engineVars, commitsVars>>

\* cherryPickCommitsOnBranch: headCommit, err := c.getCommit(ctx, SHA)
CherryGetHeadCommit ==
    /\ bpc = "GetHeadCommit"
    /\ \/ /\ remote' = Log("cherryPickCommitsOnBranch", "GetCommit", TRUE)
          /\ headCommit' = [SHA |-> loc.branchSHA, Tree |-> gh[loc.branchSHA].tree]
          /\ bi' = 1
          /\ bpc' = "Loop"
          /\ UNCHANGED <<gh, refs, picks, loc, bret, steps>>
       \/ ReturnError("cherryPickCommitsOnBranch", "GetCommit")
    /\ UNCHANGED <<connVars, codecVars, tokensVars, engineVars, commitsVars>>

\* trace.BadParameter("merge commits are not supported")
MergeCommitsNotSupported == "merge commits are not supported"

NoParent(commit) == Len(commit.parents) = 0

\* len(cherryCommit.Parents) != 1
NotSingleParent(commit) == Len(commit.parents) # 1

\* The loop test of cherryPickCommitsOnBranch and the parents test of
\* cherryPickCommit; after the last commit Backport returns the branch name.
CherryLoop ==
    /\ bpc = "Loop"
    /\ IF bi > Len(picks)
       THEN /\ bret' = [name |-> NewBranchName, err |-> "nil"]
            /\ bpc' = "returned"
            /\ UNCHANGED <<gh, refs, picks, bi, headCommit, loc, remote, steps>>
       ELSE IF NotSingleParent(gh[picks[bi]])
       THEN /\ loc' = [loc EXCEPT !.err = MergeCommitsNotSupported]
            /\ bpc' = "DeleteBranch"
            /\ UNCHANGED <<gh, refs, picks, bi, headCommit, bret, remote, steps>>
       ELSE /\ bpc' = "SiblingCreateCommit"
            /\ UNCHANGED <<gh, refs, picks, bi, headCommit, loc, bret, remote, steps>>
    /\ UNCHANGED <<connVars, codecVars, tokensVars, engineVars, commitsVars>>

\* createSiblingCommit: c.createCommit(ctx, "temp", tree, cherryParent)
SiblingCreateCommit ==
    /\ bpc = "SiblingCreateCommit"
    /\ \/ /\ remote' = Log("createSiblingCommit", "CreateCommit", TRUE)
          /\ gh' = Append(gh, CreateCommitRequest("temp", headCommit.Tree,
                                                  gh[picks[bi]].parents[1]))
          /\ loc' = [loc EXCEPT !.temp = Len(gh) + 1]
          /\ bpc' = "SiblingUpdateRef"
          /\ UNCHANGED <<refs, picks, bi, headCommit, bret, steps>>
       \/ CherryPickFailed("createSiblingCommit", "CreateCommit")
    /\ UNCHANGED <<connVars, codecVars, tokensVars, engineVars, commitsVars>>

\* createSiblingCommit: c.updateBranch(ctx, branchName, commitSHA)
SiblingUpdateRef ==
    /\ bpc = "SiblingUpdateRef"
    /\ \/ /\ remote' = Log("createSiblingCommit", "UpdateRef", TRUE)
          /\ refs' = [refs EXCEPT ![NewBranchName] = loc.temp]
          /\ bpc' = "Merge"
          /\ UNCHANGED <<gh, picks, bi, headCommit, loc, bret, steps>>
       \/ CherryPickFailed("createSiblingCommit", "UpdateRef")
    /\ UNCHANGED <<connVars, codecVars, tokensVars, engineVars, commitsVars>>

\* merge: c.Client.Repositories.Merge(base: branch, head: cherry commit).
\* The branch head and the cherry commit have the same parent, which is
\* the base of the merge.
CherryMerge ==
    /\ bpc = "Merge"
    /\ \/ /\ remote' = Log("merge", "Merge", TRUE)
          /\ LET ours == refs[NewBranchName]
                 theirs == picks[bi]
                 base == gh[theirs].parents[1]
             IN  gh' = Append(gh, [message |-> "Merge",
                                   tree |-> MergeTrees(gh[ours].tree, gh[theirs].tree,
                                                       gh[base].tree),
                                   parents |-> <<ours, theirs>>])
          /\ refs' = [refs EXCEPT ![NewBranchName] = Len(gh) + 1]
          /\ loc' = [loc EXCEPT !.mergeSHA = Len(gh) + 1]
          /\ bpc' = "MergeGetCommit"
          /\ UNCHANGED <<picks, bi, headCommit, bret, steps>>
       \/ CherryPickFailed("merge", "Merge")
    /\ UNCHANGED <<connVars, codecVars, tokensVars, engineVars, commitsVars>>

\* merge: mergeCommit, err := c.getCommit(ctx, merge.GetSHA()), and
\* mergeTree := merge.GetTree() in cherryPickCommit.
CherryMergeGetCommit ==
    /\ bpc = "MergeGetCommit"
    /\ \/ /\ remote' = Log("merge", "GetCommit", TRUE)
          /\ loc' = [loc EXCEPT !.mergeTree = gh[loc.mergeSHA].tree]
          /\ bpc' = "GetUpdatedCommit"
          /\ UNCHANGED <<gh, refs, picks, bi, headCommit, bret, steps>>
       \/ CherryPickFailed("merge", "GetCommit")
    /\ UNCHANGED <<connVars, codecVars, tokensVars, engineVars, commitsVars>>

\* cherryPickCommit: updatedCommit, err := c.getCommit(ctx, head SHA)
CherryGetUpdatedCommit ==
    /\ bpc = "GetUpdatedCommit"
    /\ \/ /\ remote' = Log("cherryPickCommit", "GetCommit", TRUE)
          /\ loc' = [loc EXCEPT !.updated = headCommit.SHA]
          /\ bpc' = "CreateCommit"
          /\ UNCHANGED <<gh, refs, picks, bi, headCommit, bret, steps>>
       \/ CherryPickFailed("cherryPickCommit", "GetCommit")
    /\ UNCHANGED <<connVars, codecVars, tokensVars, engineVars, commitsVars>>

\* cherryPickCommit: c.createCommit(ctx, message, mergeTree, updatedCommit)
CherryCreateCommit ==
    /\ bpc = "CreateCommit"
    /\ \/ /\ remote' = Log("cherryPickCommit", "CreateCommit", TRUE)
          /\ gh' = Append(gh, CreateCommitRequest(gh[picks[bi]].message,
                                                  loc.mergeTree, loc.updated))
          /\ loc' = [loc EXCEPT !.sha = Len(gh) + 1]
          /\ bpc' = "UpdateRef"
          /\ UNCHANGED <<refs, picks, bi, headCommit, bret, steps>>
       \/ CherryPickFailed("cherryPickCommit", "CreateCommit")
    /\ UNCHANGED <<connVars, codecVars, tokensVars, engineVars, commitsVars>>

\* cherryPickCommit: c.updateBranch(ctx, branchName, sha); back in the loop
\* the head commit takes the new SHA and the merge tree.
CherryUpdateRef ==
    /\ bpc = "UpdateRef"
    /\ \/ /\ remote' = Log("cherryPickCommit", "UpdateRef", TRUE)
          /\ refs' = [refs EXCEPT ![NewBranchName] = loc.sha]
          /\ headCommit' = NextHeadCommit(headCommit, loc.mergeTree, loc.sha)
          /\ steps' = Append(steps, [temp |-> loc.temp, merge |-> loc.mergeSHA,
                                     new |-> loc.sha])
          /\ bi' = bi + 1
          /\ bpc' = "Loop"
          /\ UNCHANGED <<gh, picks, loc, bret>>
       \/ CherryPickFailed("cherryPickCommit", "UpdateRef")
    /\ UNCHANGED <<connVars, codecVars, tokensVars, engineVars, commitsVars>>

\* The deferred c.deleteBranch(ctx, branchName): its error is dropped.
\* cherryPickCommitsOnBranch then returns the error and Backport returns
\* "" with it.
CherryDeleteBranch ==
    /\ bpc = "DeleteBranch"
    /\ \/ /\ remote' = Log("deleteBranch", "DeleteRef", TRUE)
          /\ refs' = [refs EXCEPT ![NewBranchName] = 0]
       \/ /\ remote' = Log("deleteBranch", "DeleteRef", FALSE)
          /\ UNCHANGED refs
    /\ bret' = [name |-> "", err |-> loc.err]
    /\ bpc' = "returned"
    /\ UNCHANGED <<gh, picks, bi, headCommit, loc, steps>>
    /\ UNCHANGED <<connVars, codecVars, tokensVars, engineVars, commitsVars>>

NextBackport ==
    \/ BackportGetBaseBranch
    \/ BackportCreateRef
    \/ CherryGetBranch
    \/ CherryGetHeadCommit
    \/ CherryLoop
    \/ SiblingCreateCommit
    \/ SiblingUpdateRef
    \/ CherryMerge
    \/ CherryMergeGetCommit
    \/ CherryGetUpdatedCommit
    \/ CherryCreateCommit
    \/ CherryUpdateRef
    \/ CherryDeleteBranch

SpecBackport == InitBackport /\ [][NextBackport]_vars

(***************************************************************************)
(* getBranchCommits.  branchCommits are the commits of the branch on       *)
(* GitHub (a commit is its number on the branch), opts the list options    *)
(* of the next request, repoCommits the commits collected so far, and      *)
(* listed the requests made: the page asked for, the page served, the      *)
(* commits and the NextPage of the response, whether the request           *)
(* succeeded.                                                              *)
(***************************************************************************)
BranchCommitLists ==
    {[k \in 1..n |-> k] : n \in 0..(MaxListPages * perPage)}

\* The page GitHub serves for a page parameter: pages count from 1, and a
\* Page of 0 is left out of the request, which asks for the first page.
ServedPage(page) == IF page = 0 THEN 1 ELSE page

\* The response of Repositories.ListCommits: the commits of the page and
\* the number of the next page, 0 when there is none.
ListCommitsResponse(commits, o) ==
    LET p == ServedPage(o.Page)
        from == (p - 1) * o.PerPage + 1
        to == IF p * o.PerPage < Len(commits) THEN p * o.PerPage ELSE Len(commits)
    IN  [commits |-> SubSeq(commits, from, to),
         served |-> p,
         NextPage |-> IF to < Len(commits) THEN p + 1 ELSE 0]

NextOptsIncrement(o, resp) == [o EXCEPT !.Page = o.Page + 1]

\* opts.Page = resp.NextPage
NextOpts(o, resp) == [o EXCEPT !.Page = resp.NextPage]

InitCommits ==
    /\ wire = <<>>
    /\ closed = FALSE
    /\ rpos = 0
    /\ sent = <<>>
    /\ calls = <<>>
    /\ tok = NoToken
    /\ mret = NoReturn
    /\ wlog = <<>>
    /\ wret = <<>>
    /\ TokensIdle
    /\ EngineIdle
    /\ BackportIdle
    /\ branchCommits \in BranchCommitLists
    /\ opts = [Page |-> 0, PerPage |-> perPage]
    /\ repoCommits = <<>>
    /\ lpc = "ListCommits"
    /\ lret = NoCommitsReturn
    /\ listed = <<>>

\* One turn of the loop of getBranchCommits: a request, which fails or
\* whose commits are appended; the loop ends when there is no next page.
DoListCommits ==
    /\ lpc = "ListCommits"
    /\ \/ LET resp == ListCommitsResponse(branchCommits, opts)
          IN  /\ listed' = Append(listed, [page |-> opts.Page, served |-> resp.served,
                                           commits |-> resp.commits,
                                           next |-> resp.NextPage, ok |-> TRUE])
              /\ repoCommits' = repoCommits \o resp.commits
              /\ IF resp.NextPage = 0
                 THEN /\ lpc' = "returned"
                      /\ lret' = [commits |-> repoCommits', err |-> "nil"]
                      /\ UNCHANGED opts
                 ELSE /\ opts' = NextOpts(opts, resp)
                      /\ UNCHANGED <<lpc, lret>>
       \/ /\ listed' = Append(listed, [page |-> opts.Page, served |-> 0,
                                       commits |-> <<>>, next |-> 0, ok |-> FALSE])
          /\ lret' = [commits |-> <<>>, err |-> "ListCommitsError"]
          /\ lpc' = "returned"
          /\ UNCHANGED <<opts, repoCommits>>
    /\ UNCHANGED branchCommits
    /\ UNCHANGED <<connVars, codecVars, tokensVars, engineVars, backportVars>>

NextCommits == DoListCommits

SpecCommits == InitCommits /\ [][NextCommits]_vars

(***************************************************************************)
(* Observations on a connection.                                           *)
(***************************************************************************)
\* The length field of the header that starts at offset p of the wire.
HeaderLength(p) == BigEndianUint16(SubSeq(wire, p + 3, p + 4))

\* The whole header of the call was on the wire.
HeaderDelivered(c) == Len(wire) - c.start >= packetHeaderSize

\* The frames the client wrote before anything that is not a frame.
RECURSIVE CleanPrefix(_)
CleanPrefix(s) ==
    IF s = <<>> \/ s[1].raw THEN <<>> ELSE <<s[1]>> \o CleanPrefix(Tail(s))

\* The packets the successive calls returned from ReadPacket, in order.
RECURSIVE Got(_)
Got(cs) ==
    IF cs = <<>> THEN <<>>
    ELSE (IF cs[1].rp.err = "nil" THEN <<cs[1].rp.pkt[1]>> ELSE <<>>)
            \o Got(Tail(cs))

RECURSIVE ConcatPayloads(_)
ConcatPayloads(fs) ==
    IF fs = <<>> THEN <<>> ELSE fs[1].payload \o ConcatPayloads(Tail(fs))

RECURSIVE TotalLength(_)
TotalLength(fs) ==
    IF fs = <<>> THEN 0
    ELSE packetHeaderSize + Len(fs[1].payload) + TotalLength(Tail(fs))

\* The error kinds of the design and the Go errors that stand for them.
ConnectionClosed == "EOF"
Truncated == "ErrUnexpectedEOF"
UnexpectedPacketType == "BadParameter"

(***************************************************************************)
(* C1: a header whose length field is in 0..7 makes ReadPacket return an   *)
(* error without asking for any payload bytes: no payload read of          *)
(* length-8 mod 2^16 bytes is attempted and the stream stays right after   *)
(* the header.                                                             *)
(***************************************************************************)
C1_ShortLengthRejected ==
    \A i \in 1..Len(calls) :
        LET c == calls[i]
        IN  (HeaderDelivered(c) /\ HeaderLength(c.start) < packetHeaderSize)
            => /\ c.err # "nil"
               /\ c.rp.want = -1
               /\ c.rp.pos = c.start + packetHeaderSize

(***************************************************************************)
(* C5: a stream that ends before 8 header bytes makes ReadPacket fail with *)
(* ConnectionClosed, one that ends inside the payload of a header with     *)
(* length L > 8 makes it fail with Truncated; no packet is returned.       *)
(***************************************************************************)
C5_ClosedVersusTruncated ==
    \A i \in 1..Len(calls) :
        LET c == calls[i]
        IN  /\ (closed /\ ~HeaderDelivered(c))
               => (c.rp.err = ConnectionClosed /\ c.rp.pkt = <<>>)
            /\ (/\ closed
                /\ HeaderDelivered(c)
                /\ HeaderLength(c.start) > packetHeaderSize
                /\ Len(wire) - c.start < HeaderLength(c.start))
               => (c.rp.err = Truncated /\ c.rp.pkt = <<>>)

(***************************************************************************)
(* C6: a frame written as header (length = 8 + len(payload)) and payload   *)
(* is read back by ReadPacket with the type, status, payload and packet ID *)
(* it was written with.                                                    *)
(***************************************************************************)
C6_RoundTrip ==
    LET got == Got(calls)
        fs == CleanPrefix(sent)
    IN  \A i \in 1..Len(got) :
            i <= Len(fs)
            => /\ got[i].Type = fs[i].type
               /\ got[i].Status = fs[i].status
               /\ got[i].Data = fs[i].payload
               /\ got[i].PacketID = fs[i].packetId

C6_Witness ==
    /\ Len(calls) >= 1
    /\ Len(sent) >= 1
    /\ ~sent[1].raw
    /\ sent[1].payload # <<>>
    /\ sent[1].packetId = 255
    /\ calls[1].fn = "ReadPacket"
    /\ calls[1].err = "nil"
    /\ calls[1].val[1].Data = sent[1].payload

(***************************************************************************)
(* C7: a successful ReadPacket on a frame of declared length L >= 8        *)
(* consumes exactly the L bytes of the frame and returns bytes 8..L-1 as   *)
(* Data; each call starts where the previous one stopped, so back-to-back  *)
(* frames come out in order with no byte lost or read twice.               *)
(***************************************************************************)
C7_ExactConsumption ==
    /\ \A i \in 1..Len(calls) :
          LET c == calls[i]
              L == HeaderLength(c.start)
          IN  /\ c.start = (IF i = 1 THEN 0 ELSE calls[i - 1].rp.pos)
              /\ (c.rp.err = "nil" /\ L >= packetHeaderSize)
                 => /\ c.rp.pos = c.start + L
                    /\ c.rp.pkt[1].Data = SubSeq(wire, c.start + 9, c.start + L)
                    /\ c.rp.pkt[1].Length = L
    /\ rpos = (IF calls = <<>> THEN 0 ELSE calls[Len(calls)].rp.pos)
    /\ LET got == Got(calls)
           fs == CleanPrefix(sent)
       IN  (Len(got) = Len(calls) /\ Len(got) <= Len(fs))
           => rpos = TotalLength(SubSeq(fs, 1, Len(got)))

C7_Witness ==
    /\ Len(calls) = 2
    /\ calls[1].fn = "ReadPacket" /\ calls[1].err = "nil"
    /\ calls[2].fn = "ReadPacket" /\ calls[2].err = "nil"
    /\ calls[1].val[1].Data # <<>>
    /\ calls[2].val[1].Data # <<>>
    /\ calls[1].val[1].Data # calls[2].val[1].Data
    /\ rpos = Len(wire)

(***************************************************************************)
(* C8: a login message split across N >= 1 packets, of which only the last *)
(* has the end-of-message bit, is read whole by the login step: all N      *)
(* packets are consumed and the payloads are returned concatenated.        *)
(***************************************************************************)
IsWholeMessage(fs) ==
    /\ fs # <<>>
    /\ \A j \in 1..Len(fs) :
          /\ fs[j].type = PacketTypeLogin7
          /\ (fs[j].status % 2 = 1) <=> (j = Len(fs))

C8_MessageReassembled ==
    \A n \in 1..Len(CleanPrefix(sent)) :
        LET msg == SubSeq(CleanPrefix(sent), 1, n)
        IN  (/\ IsWholeMessage(msg)
             /\ calls # <<>>
             /\ calls[1].fn = "ReadLogin7Packet")
            => /\ calls[1].err = "nil"
               /\ calls[1].val[1].Packet.Data = ConcatPayloads(msg)
               /\ calls[1].rp.pos = TotalLength(msg)

(***************************************************************************)
(* C9: ReadLogin7Packet rejects every framed packet whose type is not 16   *)
(* with UnexpectedPacketType and no Login7Packet, wraps exactly the packet *)
(* read when the type is 16, and passes a framing error on with no         *)
(* Login7Packet.                                                           *)
(***************************************************************************)
C9_Login7TypeCheck ==
    \A i \in 1..Len(calls) :
        LET c == calls[i]
        IN  c.fn = "ReadLogin7Packet"
            => /\ (c.rp.err = "nil" /\ wire[c.start + 1] # 16)
                  => (c.err = UnexpectedPacketType /\ c.val = <<>>)
               /\ (c.rp.err = "nil" /\ wire[c.start + 1] = 16)
                  => /\ c.err = "nil"
                     /\ Len(c.val) = 1
                     /\ c.val[1].Packet = c.rp.pkt[1]
                     /\ c.val[1].Packet.Type = 16
               /\ (c.rp.err # "nil")
                  => (c.err = c.rp.err /\ c.val = <<>>)

C9_Witness ==
    /\ Len(calls) = 2
    /\ calls[1].fn = "ReadLogin7Packet"
    /\ calls[1].rp.err = "nil"
    /\ calls[1].err = UnexpectedPacketType
    /\ calls[2].fn = "ReadLogin7Packet"
    /\ calls[2].err = "nil"
    /\ calls[2].val[1].Packet.Data # <<>>

(***************************************************************************)
(* Observations on a marshalled LoginAckToken.                             *)
(***************************************************************************)
Marshalled == mret # NoReturn

InBasicPlane(s) == \A i \in 1..Len(s) : s[i] < 65536
IsAscii(s) == \A i \in 1..Len(s) : s[i] < 128

\* The number of UCS-2 code units of a name.
CodeUnits(s) ==
    Len(s) + Cardinality({i \in 1..Len(s) : s[i] >= 65536})

(***************************************************************************)
(* C2: for a program name of the basic plane with at most 255 code units   *)
(* the little-endian length field at bytes 1..2 of the marshalled          *)
(* LoginAckToken is the number of bytes that follow it, len(output) - 3.   *)
(***************************************************************************)
C2_LengthCoversRest ==
    (/\ Marshalled
     /\ InBasicPlane(tok.ProgName)
     /\ CodeUnits(tok.ProgName) <= 255)
    => /\ mret.err = "nil"
       /\ mret.bytes[2] + 256 * mret.bytes[3] = Len(mret.bytes) - 3

(***************************************************************************)
(* C3: for an ASCII program name of n <= 255 characters the marshalled     *)
(* LoginAckToken is, in order: 0xAD, the little-endian length 1+4+2n+4,    *)
(* the interface, the big-endian protocol version, the count n, the name   *)
(* as n little-endian code units and the little-endian program version.    *)
(***************************************************************************)
C3_AsciiLayout ==
    (/\ Marshalled
     /\ IsAscii(tok.ProgName)
     /\ Len(tok.ProgName) <= 255)
    => LET b == mret.bytes
           n == Len(tok.ProgName)
       IN  /\ mret.err = "nil"
           /\ Len(b) = 3 + 1 + 4 + 1 + 2 * n + 4
           /\ b[1] = 173
           /\ b[2] + 256 * b[3] = 1 + 4 + 2 * n + 4
           /\ b[4] = tok.Interface
           /\ b[5] * 16777216 + b[6] * 65536 + b[7] * 256 + b[8] = tok.TDSVersion
           /\ b[9] = n
           /\ \A i \in 1..n : b[8 + 2 * i] + 256 * b[9 + 2 * i] = tok.ProgName[i]
           /\ b[10 + 2 * n] + 256 * b[11 + 2 * n] + 65536 * b[12 + 2 * n]
                 + 16777216 * b[13 + 2 * n] = tok.ProgVer

C3_Witness ==
    /\ Marshalled
    /\ tok.ProgName = <<83, 65>>
    /\ tok.ProgVer = 16909060
    /\ tok.TDSVersion = verTDS74
    /\ tok.Interface = 1
    /\ Len(mret.bytes) = 17

(***************************************************************************)
(* C4: a program name of more than 255 code units is rejected by Marshal   *)
(* with an error and no bytes.                                             *)
(***************************************************************************)
C4_LongNameRejected ==
    (Marshalled /\ CodeUnits(tok.ProgName) > 255)
    => (mret.err # "nil" /\ mret.bytes = <<>>)

(***************************************************************************)
(* C10: every call of WriteLogin7Response makes one conn.Write of one      *)
(* frame: response type, end-of-message bit set, packet ID 1, big-endian   *)
(* length 8 + len(payload), payload the LoginAck encoding followed by the  *)
(* Done encoding; a call that returned nil wrote the whole frame.          *)
(***************************************************************************)
C10_OneResponseFrame ==
    /\ Len(wlog) = Len(wret)
    /\ \A i \in 1..Len(wlog) :
          LET b == wlog[i].data
              payload == SubSeq(b, 9, Len(b))
              ack == LoginAckTokenMarshal(Login7ResponseTokens[1]).bytes
          IN  /\ wret[i] = wlog[i].err
              /\ (wret[i] = "nil") => (wlog[i].n = Len(b))
              /\ b[1] = PacketTypeResponse
              /\ b[2] % 2 = 1
              /\ b[3] * 256 + b[4] = 8 + Len(payload)
              /\ b[7] = 1
              /\ Len(payload) = 57 + 13
              /\ SubSeq(payload, 1, 57) = ack
              /\ ack[1] = 173 /\ ack[9] = 22
              /\ SubSeq(payload, 58, 70) = <<253, 0, 0, 0, 0, 0, 0, 0, 0, 0, 0, 0, 0>>

C10_Witness ==
    /\ Len(wret) = 2
    /\ wret[1] = "WriteError"
    /\ wret[2] = "nil"
    /\ wlog[2].n = 78

(***************************************************************************)
(* Observations on marshalled tokens.                                      *)
(***************************************************************************)
\* The indices of the tokens whose own Marshal fails.
FailingTokens == {i \in 1..Len(toks) : TokenMarshal(toks[i]).err # "nil"}

\* The length of the encodings of the first k tokens together.
RECURSIVE EncodedLength(_)
EncodedLength(k) ==
    IF k = 0 THEN 0 ELSE EncodedLength(k - 1) + Len(TokenMarshal(toks[k]).bytes)

(***************************************************************************)
(* C11: Tokens.Marshal returns the encodings of the tokens one after the   *)
(* other in insertion order (nothing for no token); when the Marshal of a  *)
(* token fails it returns that error and no bytes at all.                  *)
(***************************************************************************)
C11_TokensConcatenated ==
    (tsret # NoReturn)
    => IF FailingTokens = {}
       THEN /\ tsret.err = "nil"
            /\ Len(tsret.bytes) = EncodedLength(Len(toks))
            /\ \A i \in 1..Len(toks) :
                  SubSeq(tsret.bytes, EncodedLength(i - 1) + 1, EncodedLength(i))
                     = TokenMarshal(toks[i]).bytes
       ELSE LET first == CHOOSE i \in FailingTokens :
                            \A j \in FailingTokens : i <= j
            IN  /\ tsret.err = toks[first].err
                /\ tsret.bytes = <<>>

C11_Witness ==
    /\ tsret # NoReturn
    /\ Len(toks) = 3
    /\ toks[1].kind = "LoginAck"
    /\ toks[2].kind = "Done"
    /\ toks[3].kind = "Other"
    /\ toks[3].err = "MarshalError"
    /\ tsret.err = "MarshalError"

(***************************************************************************)
(* C12: DoneToken.Marshal succeeds with exactly 13 bytes: 0xFD, the status *)
(* and the current command as 2 little-endian bytes each and the row count *)
(* as 8 little-endian bytes; all zero gives 0xFD and twelve zero bytes.    *)
(***************************************************************************)
C12_DoneLayout ==
    (dret # NoReturn)
    => LET b == dret.bytes
       IN  /\ dret.err = "nil"
           /\ Len(b) = 13
           /\ b[1] = 253
           /\ b[2] + 256 * b[3] = dtok.Status
           /\ b[4] + 256 * b[5] = dtok.CurCmd
           /\ \A k \in 1..4 : b[4 + 2 * k] + 256 * b[5 + 2 * k] = dtok.RowCount[k]
           /\ \A k \in 1..13 : b[k] \in 0..255
           /\ (dtok = NoDoneToken)
              => b = <<253, 0, 0, 0, 0, 0, 0, 0, 0, 0, 0, 0, 0>>

C12_Witness ==
    /\ dret # NoReturn
    /\ dtok.Status = 258
    /\ dtok.CurCmd = 513
    /\ dtok.RowCount = <<1027, 1541, 2055, 2569>>
    /\ dret.bytes = <<253, 2, 1, 1, 2, 3, 4, 5, 6, 7, 8, 9, 10>>

(***************************************************************************)
(* C13: for a program name with a code point above U+FFFF Marshal returns  *)
(* an error or drops that code point: no surrogate code unit is emitted,   *)
(* and the count byte and the length field agree with the name bytes that  *)
(* were emitted.                                                           *)
(***************************************************************************)
C13_NoSurrogates ==
    (Marshalled /\ ~InBasicPlane(tok.ProgName))
    => \/ mret.err # "nil"
       \/ LET b == mret.bytes
              units == (Len(b) - 13) \div 2
          IN  /\ \A i \in 1..units :
                    LET u == b[8 + 2 * i] + 256 * b[9 + 2 * i]
                    IN  u < 55296 \/ u > 57343
              /\ b[9] = Uint8(units)
              /\ b[2] + 256 * b[3] = 1 + 4 + 2 * units + 4

(***************************************************************************)
(* Observations on a run of HandleConnection.                              *)
(***************************************************************************)
Returned == epc = "returned"

ClientCloses == Cardinality({i \in 1..Len(clientOps) : clientOps[i] = "close"})
ClientReads == Cardinality({i \in 1..Len(clientOps) : clientOps[i] = "read"})
ClientWrites == Cardinality({i \in 1..Len(clientOps) : clientOps[i] = "write"})

\* The error kinds of the design and the Go errors that stand for them.
BadTarget == {"AddrError", "NumError"}
BackendUnreachable == "ConnectError"

\* The URI is host:port, the host without colon and bracket or in brackets,
\* the port without colon and bracket.
Splittable(u) ==
    \E i \in 1..Len(u) :
        /\ u[i] = ":"
        /\ \A k \in (i + 1)..Len(u) : u[k] \notin {":", "[", "]"}
        /\ LET h == SubSeq(u, 1, i - 1)
           IN  \/ \A k \in 1..Len(h) : h[k] \notin {":", "[", "]"}
               \/ /\ Len(h) >= 2
                  /\ h[1] = "["
                  /\ h[Len(h)] = "]"
                  /\ \A k \in 2..(Len(h) - 1) : h[k] \notin {"[", "]"}

\* What follows the last colon of the URI.
PortPart(u) ==
    LET i == CHOOSE i \in 1..Len(u) :
                u[i] = ":" /\ \A k \in (i + 1)..Len(u) : u[k] # ":"
    IN  SubSeq(u, i + 1, Len(u))

IsUnsignedDecimal(p) == p # <<>> /\ \A k \in 1..Len(p) : p[k] \in Digits

GoodTarget(u) == Splittable(u) /\ IsUnsignedDecimal(PortPart(u))

(***************************************************************************)
(* C14: when the client sends a pre-login and a login message and the      *)
(* authorizer allows, HandleConnection reads both in that order and writes *)
(* the [LoginAck, Done] response to the client; it does not return before  *)
(* the response has been written.                                          *)
(***************************************************************************)
C14_HandshakeBeforeReturn ==
    (/\ Returned
     /\ eret = "nil"
     /\ authz
     /\ sent = <<PreLoginFrame, Login7Frame>>)
    => /\ ClientReads >= 2
       /\ ClientWrites >= 1
       /\ Len(wlog) >= 1
       /\ rpos = Len(wire)

(***************************************************************************)
(* C15: when the authorizer denies the session (of a target that could be  *)
(* resolved), the backend connector is never invoked, and the client       *)
(* connection is closed when HandleConnection has returned.                *)
(***************************************************************************)
C15_DeniedNeverConnects ==
    (~authz /\ GoodTarget(uri))
    => /\ connects = <<>>
       /\ Returned => ClientCloses >= 1

(***************************************************************************)
(* C16: when the connector returns an error, HandleConnection returns that *)
(* error, has closed the client connection and has done no handshake read  *)
(* and no handshake write on it.                                           *)
(***************************************************************************)
C16_ConnectErrorClosesClient ==
    (Returned /\ connects # <<>> /\ backend = "none")
    => /\ eret = BackendUnreachable
       /\ ClientCloses >= 1
       /\ ClientReads = 0
       /\ ClientWrites = 0
       /\ rpos = 0
       /\ wlog = <<>>

(***************************************************************************)
(* C17: when the database URI cannot be split into host and port or the    *)
(* port is not an unsigned decimal integer, HandleConnection fails with a  *)
(* BadTarget error, the connector is not invoked and nothing is read from  *)
(* or written to the client connection.                                    *)
(***************************************************************************)
C17_BadTargetFailsFirst ==
    (~GoodTarget(uri))
    => /\ connects = <<>>
       /\ backend = "none"
       /\ clientOps = <<>>
       /\ rpos = 0
       /\ wlog = <<>>
       /\ epc \in {"SplitHostPort", "ParseUint", "returned"}
       /\ Returned => eret \in BadTarget

C17_Witness ==
    /\ Returned
    /\ uri = <<"h", ":", "-", "1">>
    /\ eret = "NumError"
    /\ Len(sent) = 2

(***************************************************************************)
(* C18: once a backend connection has been obtained, both the client       *)
(* connection and the backend connection have been closed exactly once     *)
(* each when HandleConnection returns, and neither is ever closed twice.   *)
(***************************************************************************)
C18_BothClosedOnce ==
    /\ backendCloses <= 1
    /\ ClientCloses <= 1
    /\ (Returned /\ backend # "none")
       => (backendCloses = 1 /\ ClientCloses = 1)


(***************************************************************************)
(* Observations on a backport.                                             *)
(***************************************************************************)
RECURSIVE Reachable(_)
\* The commits reachable from commit c through parents.
Reachable(c) ==
    {c} \cup UNION {Reachable(gh[c].parents[k]) : k \in 1..Len(gh[c].parents)}

BackportReturned == bpc = "returned"
BackportSucceeded == BackportReturned /\ bret.err = "nil"
BaseHead == refs[BaseBranchName]
NewHead == refs[NewBranchName]
\* The head of the new branch before step i.
HeadBefore(i) == IF i = 1 THEN BaseHead ELSE steps[i - 1].new
NewCommits == {steps[i].new : i \in 1..Len(steps)}
LostCommits ==
    {steps[i].temp : i \in 1..Len(steps)} \cup {steps[i].merge : i \in 1..Len(steps)}

CherryPickFunctions == {"createSiblingCommit", "merge", "cherryPickCommit"}
\* The calls of a cherry-pick that failed, and those of createBranchFrom.
FailedCherryCalls ==
    {k \in 1..Len(remote) : remote[k].fn \in CherryPickFunctions /\ ~remote[k].ok}
FailedCreateBranchCalls ==
    {k \in 1..Len(remote) : remote[k].fn = "createBranchFrom" /\ ~remote[k].ok}
DeleteCalls == {k \in 1..Len(remote) : remote[k].op = "DeleteRef"}

\* C19: when Backport succeeds for commits c1..cn, it returns the name of
\* the new branch, and that branch points at the last of exactly n new
\* commits which form a linear chain on the head of the base branch: the
\* i-th has the message of ci, the tree of the merge commit of step i and
\* one parent, the head of the branch before step i; no temporary or merge
\* commit is reachable from the head of the new branch.
C19_LinearChain ==
    BackportSucceeded =>
        /\ bret.name = NewBranchName
        /\ Len(steps) = Len(picks)
        /\ Cardinality(NewCommits) = Len(picks)
        /\ NewHead = HeadBefore(Len(picks) + 1)
        /\ \A i \in 1..Len(picks) :
              /\ Len(gh[picks[i]].parents) = 1
              /\ steps[i].new > Len(InitialCommits)
              /\ gh[steps[i].new].message = gh[picks[i]].message
              /\ gh[steps[i].new].tree = gh[steps[i].merge].tree
              /\ gh[steps[i].merge].parents = <<steps[i].temp, picks[i]>>
              /\ gh[steps[i].new].parents = <<HeadBefore(i)>>
        /\ Reachable(NewHead) = Reachable(BaseHead) \cup NewCommits
        /\ Reachable(NewHead) \cap LostCommits = {}

C19_Witness ==
    /\ BackportSucceeded
    /\ Len(picks) >= 2
    /\ picks[1] # picks[2]
    /\ gh[NewHead].tree = {"b", "x", "y"}

\* C20: when a remote call of the cherry-pick of commit ci fails, no call
\* is made for a later commit, the only call that follows is one delete of
\* the new branch, and Backport returns "" with the error; when a call of
\* createBranchFrom fails, no call follows it: nothing is cherry-picked and
\* nothing deleted, and Backport returns "" with the error.
C20_FailureStopsAndDeletes ==
    /\ \A k \in FailedCherryCalls :
          /\ \A j \in 1..Len(remote) : remote[j].i <= remote[k].i
          /\ \A j \in 1..Len(remote) : j > k => j = k + 1 /\ j \in DeleteCalls
          /\ DeleteCalls \subseteq {k + 1}
          /\ bi = remote[k].i
          /\ BackportReturned =>
                /\ DeleteCalls = {k + 1}
                /\ bret = [name |-> "", err |-> remote[k].op]
    /\ \A k \in FailedCreateBranchCalls :
          /\ k = Len(remote)
          /\ \A j \in 1..Len(remote) : remote[j].fn = "createBranchFrom"
          /\ BackportReturned
          /\ bret = [name |-> "", err |-> remote[k].op]
          /\ NewHead = 0

C20_Witness ==
    /\ BackportReturned
    /\ FailedCherryCalls # {}
    /\ bi < Len(picks)
    /\ DeleteCalls = {Len(remote)}
    /\ bret.name = ""

\* The calls made to GitHub for the commit at index i of picks, the delete
\* of the branch left out.
CallsFor(i) ==
    {k \in 1..Len(remote) : remote[k].i = i /\ remote[k].fn # "deleteBranch"}
\* The commit at the loop index has been tested by cherryPickCommit.
ParentsTested == bi \in 1..Len(picks) /\ bpc # "Loop"
Rejected == ParentsTested /\ loc.err = MergeCommitsNotSupported

\* C21: a commit that has not exactly one parent is rejected by
\* cherryPickCommit with the error "merge commits are not supported", and
\* no call is made to GitHub for it: no commit is created for it, no merge
\* is requested and the branch is not moved, so the branch still points at
\* the head of the previous steps until it is deleted.  Backport returns
\* "" with that error.
C21_MergeCommitRejected ==
    (ParentsTested /\ Len(gh[picks[bi]].parents) # 1) =>
        /\ Rejected
        /\ CallsFor(bi) = {}
        /\ Len(gh) = Len(InitialCommits) + 3 * Len(steps)
        /\ Len(steps) = bi - 1
        /\ NewHead \in {headCommit.SHA, 0}
        /\ NewHead = 0 => DeleteCalls # {}
        /\ BackportReturned =>
              bret = [name |-> "", err |-> MergeCommitsNotSupported]

C21_Witness ==
    /\ BackportReturned
    /\ Rejected
    /\ bi = 2
    /\ Len(gh[picks[bi]].parents) = 2
    /\ Len(gh) = Len(InitialCommits) + 3

(***************************************************************************)
(* Observations on getBranchCommits.                                       *)
(***************************************************************************)
RECURSIVE ConcatPages(_)
\* The commits of the first k responses, in the order of the requests.
ConcatPages(k) == IF k = 0 THEN <<>> ELSE ConcatPages(k - 1) \o listed[k].commits

CommitsReturned == lpc = "returned"
LastRequestEnds ==
    /\ listed # <<>>
    /\ ~listed[Len(listed)].ok \/ listed[Len(listed)].next = 0

\* C22: the first request asks for page 0 and every later one for the
\* NextPage of the response before it; getBranchCommits has returned
\* exactly when the last response had NextPage 0 or the last request
\* failed; with no failure it returns the commits of the responses
\* concatenated in the order of the requests, the pages served being
\* 1, 2, ... with none left out or served twice, which makes the commits
\* of the branch; after a failure it returns the error and no commits.
C22_Pagination ==
    /\ \A k \in 1..Len(listed) :
          /\ listed[k].page = IF k = 1 THEN 0 ELSE listed[k - 1].next
          /\ k > 1 => listed[k - 1].ok /\ listed[k - 1].next # 0
          /\ listed[k].ok => listed[k].served = k
    /\ CommitsReturned <=> LastRequestEnds
    /\ repoCommits = ConcatPages(Len(listed))
    /\ (CommitsReturned /\ listed[Len(listed)].ok) =>
          /\ lret = [commits |-> ConcatPages(Len(listed)), err |-> "nil"]
          /\ lret.commits = branchCommits
    /\ (CommitsReturned /\ ~listed[Len(listed)].ok) =>
          lret = [commits |-> <<>>, err |-> "ListCommitsError"]

C22_Witness ==
    /\ CommitsReturned
    /\ lret.err = "nil"
    /\ Len(listed) >= 3
    /\ Len(lret.commits) > 2 * perPage
    /\ Len(listed[3].commits) < perPage
====
